---- MODULE Spec2Model ----
(***************************************************************************)
(* The statutory tax calculator of the Nigeria Tax Reform assistant:       *)
(* calculatePIT and calculateCIT (frontend/utils.js), the rate tables      *)
(* (frontend/constants.js) and the results of CalculatorDashboard.         *)
(*                                                                         *)
(* Amounts are JavaScript Numbers, i.e. IEEE-754 binary64 values.  The     *)
(* model keeps their rounding: a Number is a sign and a magnitude, the     *)
(* magnitude being a natural number of units of 2^-60 held as a sequence   *)
(* of 12-bit limbs (least significant first, no leading zero limb), and    *)
(* every +, - and * rounds its exact result to 53 significant bits, ties   *)
(* to even.  All amounts entered are whole numbers, so every value that    *)
(* occurs is a multiple of 2^-60 and nothing is lost by the fixed unit.    *)
(* -0 is identified with 0; NaN does not occur (Infinity only occurs as    *)
(* the limit of the top band).                                             *)
(***************************************************************************)
EXTENDS Integers, Sequences, FiniteSets, TLC

\* ------------------------------------------------------------------------
\* Naturals of arbitrary size: little-endian sequences of limbs
\* ------------------------------------------------------------------------
LimbBits == 12
Base == 2^LimbBits
FracLimbs == 5
GuardLimbs == 2

RECURSIVE Norm(_)
Norm(s) ==
  IF s = <<>> THEN <<>>
  ELSE IF s[Len(s)] = 0 THEN Norm(SubSeq(s, 1, Len(s) - 1)) ELSE s

Limb(s, i) == IF i <= Len(s) THEN s[i] ELSE 0

MaxInt(a, b) == IF a >= b THEN a ELSE b
MinInt(a, b) == IF a <= b THEN a ELSE b

\* floor division and modulus of a possibly negative column by Base
FloorDiv(t) == IF t >= 0 THEN t \div Base ELSE -(((-t) + Base - 1) \div Base)
FloorMod(t) == t - Base * FloorDiv(t)

RECURSIVE Carry(_, _, _)
Carry(cols, i, c) ==
  IF i > Len(cols)
    THEN IF c = 0 THEN <<>> ELSE <<FloorMod(c)>> \o Carry(cols, i, FloorDiv(c))
    ELSE LET t == cols[i] + c
         IN  <<FloorMod(t)>> \o Carry(cols, i + 1, FloorDiv(t))

NatAdd(a, b) ==
  Norm(Carry([i \in 1..MaxInt(Len(a), Len(b)) |-> Limb(a, i) + Limb(b, i)], 1, 0))

\* a - b for a >= b
NatSub(a, b) ==
  Norm(Carry([i \in 1..Len(a) |-> a[i] - Limb(b, i)], 1, 0))

RECURSIVE NatCmpFrom(_, _, _)
NatCmpFrom(a, b, i) ==
  IF i = 0 THEN 0
  ELSE IF a[i] < b[i] THEN -1
  ELSE IF a[i] > b[i] THEN 1
  ELSE NatCmpFrom(a, b, i - 1)

\* -1, 0, 1 as a < b, a = b, a > b
NatCmp(a, b) ==
  IF Len(a) < Len(b) THEN -1
  ELSE IF Len(a) > Len(b) THEN 1
  ELSE NatCmpFrom(a, b, Len(a))

RECURSIVE ColSum(_, _, _, _)
ColSum(a, b, k, i) ==
  IF i > MinInt(Len(a), k) THEN 0
  ELSE a[i] * b[k + 1 - i] + ColSum(a, b, k, i + 1)

NatMul(a, b) ==
  IF a = <<>> \/ b = <<>> THEN <<>>
  ELSE Norm(Carry([k \in 1..(Len(a) + Len(b) - 1) |->
                     ColSum(a, b, k, MaxInt(1, k + 1 - Len(b)))], 1, 0))

RECURSIVE SmallBitLen(_)
SmallBitLen(n) == IF n = 0 THEN 0 ELSE 1 + SmallBitLen(n \div 2)

BitLen(a) == IF a = <<>> THEN 0 ELSE LimbBits * (Len(a) - 1) + SmallBitLen(a[Len(a)])

\* bit k (from 0) of a
Bit(a, k) == (Limb(a, (k \div LimbBits) + 1) \div 2^(k % LimbBits)) % 2

\* bits 0 .. k-1 of a are all zero
LowZero(a, k) ==
  /\ \A i \in 1..(k \div LimbBits) : Limb(a, i) = 0
  /\ Limb(a, (k \div LimbBits) + 1) % 2^(k % LimbBits) = 0

Pow2(r) == [i \in 1..((r \div LimbBits) + 1) |->
              IF i = (r \div LimbBits) + 1 THEN 2^(r % LimbBits) ELSE 0]

Limbs(n) == Norm(Carry(<<n>>, 1, 0))

ShiftLimbs(a, n) == IF a = <<>> THEN <<>> ELSE [i \in 1..n |-> 0] \o a

DropLimbs(a, n) == IF Len(a) <= n THEN <<>> ELSE SubSeq(a, n + 1, Len(a))

\* quotient of a by the small number d, and whether it left a remainder
RECURSIVE DivSmall(_, _, _, _)
DivSmall(a, d, i, rem) ==
  IF i = 0 THEN [q |-> <<>>, rem |-> rem]
  ELSE LET t == rem * Base + a[i]
           rest == DivSmall(a, d, i - 1, t % d)
       IN  [q |-> Append(rest.q, t \div d), rem |-> rest.rem]

\* ------------------------------------------------------------------------
\* binary64: round to nearest, ties to even, at 53 significant bits
\* ------------------------------------------------------------------------
Precision == 53

Round53(a) ==
  IF BitLen(a) <= Precision THEN a
  ELSE LET r == BitLen(a) - Precision
           q == r \div LimbBits
           b == r % LimbBits
           half == Bit(a, r - 1) = 1
           sticky == ~LowZero(a, r - 1)
           odd == Bit(a, r) = 1
           trunc == [i \in 1..Len(a) |->
                       IF i <= q THEN 0
                       ELSE IF i = q + 1 THEN a[i] - (a[i] % 2^b)
                       ELSE a[i]]
       IN  IF half /\ (sticky \/ odd) THEN NatAdd(trunc, Pow2(r)) ELSE trunc

Zero == [neg |-> FALSE, inf |-> FALSE, mag |-> <<>>]
Infinity == [neg |-> FALSE, inf |-> TRUE, mag |-> <<>>]

Mk(neg, mag) == IF mag = <<>> THEN Zero ELSE [neg |-> neg, inf |-> FALSE, mag |-> mag]

\* the Number of a whole amount (exact: every amount used is below 2^53)
FromInt(n) ==
  IF n = 0 THEN Zero
  ELSE Mk(n < 0, ShiftLimbs(Limbs(IF n < 0 THEN -n ELSE n), FracLimbs))

\* the Number a decimal literal num/den denotes: the binary64 nearest to it
Dec(num, den) ==
  IF num = 0 THEN Zero
  ELSE LET d == DivSmall(ShiftLimbs(Limbs(num), FracLimbs + GuardLimbs), den,
                         Len(Limbs(num)) + FracLimbs + GuardLimbs, 0)
           q == Norm(d.q)
           qs == IF d.rem = 0 \/ q[1] % 2 = 1 THEN q ELSE [q EXCEPT ![1] = q[1] + 1]
       IN  Mk(FALSE, DropLimbs(Round53(qs), GuardLimbs))

DNeg(x) == IF x.mag = <<>> /\ ~x.inf THEN x ELSE [x EXCEPT !.neg = ~x.neg]

DAdd(x, y) ==
  IF x.inf THEN x
  ELSE IF y.inf THEN y
  ELSE IF x.neg = y.neg THEN Mk(x.neg, Round53(NatAdd(x.mag, y.mag)))
  ELSE LET c == NatCmp(x.mag, y.mag)
       IN  IF c = 0 THEN Zero
           ELSE IF c > 0 THEN Mk(x.neg, Round53(NatSub(x.mag, y.mag)))
           ELSE Mk(y.neg, Round53(NatSub(y.mag, x.mag)))

DSub(x, y) == DAdd(x, DNeg(y))

DMul(x, y) ==
  Mk(x.neg # y.neg, DropLimbs(Round53(NatMul(x.mag, y.mag)), FracLimbs))

DLt(x, y) ==
  IF x.inf \/ y.inf
    THEN (y.inf /\ ~y.neg /\ ~(x.inf /\ ~x.neg)) \/ (x.inf /\ x.neg /\ ~(y.inf /\ y.neg))
  ELSE IF x.neg /\ ~y.neg THEN TRUE
  ELSE IF ~x.neg /\ y.neg THEN FALSE
  ELSE IF x.neg THEN NatCmp(x.mag, y.mag) > 0
  ELSE NatCmp(x.mag, y.mag) < 0

DLeq(x, y) == ~DLt(y, x)
DGt(x, y) == DLt(y, x)
DGeq(x, y) == ~DLt(x, y)

DMax(x, y) == IF DLt(x, y) THEN y ELSE x
DMin(x, y) == IF DLt(y, x) THEN y ELSE x

\* ------------------------------------------------------------------------
\* constants.js
\* ------------------------------------------------------------------------
\* the table with a digit of the second limit dropped
PIT_BRACKETS_MistypedLimit == <<
  [limit |-> FromInt(800000),   rate |-> Dec(0, 100),  citation |-> "NTA 2025 s.56(1)"],
  [limit |-> FromInt(300000),   rate |-> Dec(15, 100), citation |-> "NTA 2025 s.56(2)"],
  [limit |-> FromInt(12000000), rate |-> Dec(18, 100), citation |-> "NTA 2025 s.56(3)"],
  [limit |-> FromInt(25000000), rate |-> Dec(21, 100), citation |-> "NTA 2025 s.56(4)"],
  [limit |-> FromInt(50000000), rate |-> Dec(23, 100), citation |-> "NTA 2025 s.56(5)"],
  [limit |-> Infinity,          rate |-> Dec(25, 100), citation |-> "NTA 2025 s.56(6)"] >>

PIT_BRACKETS == <<
  [limit |-> FromInt(800000),   rate |-> Dec(0, 100),  citation |-> "NTA 2025 s.56(1)"],
  [limit |-> FromInt(3000000),  rate |-> Dec(15, 100), citation |-> "NTA 2025 s.56(2)"],
  [limit |-> FromInt(12000000), rate |-> Dec(18, 100), citation |-> "NTA 2025 s.56(3)"],
  [limit |-> FromInt(25000000), rate |-> Dec(21, 100), citation |-> "NTA 2025 s.56(4)"],
  [limit |-> FromInt(50000000), rate |-> Dec(23, 100), citation |-> "NTA 2025 s.56(5)"],
  [limit |-> Infinity,          rate |-> Dec(25, 100), citation |-> "NTA 2025 s.56(6)"] >>

\* the levy typed as the percentage 4 instead of the fraction 0.04
CIT_RATES_LevyAsPercent ==
  [SMALL |-> Dec(0, 100), OTHERS |-> Dec(30, 100), DEV_LEVY |-> FromInt(4),
   MIN_EFFECTIVE_RATE |-> Dec(15, 100), CGT_COMPANY |-> Dec(30, 100)]

CIT_RATES ==
  [SMALL |-> Dec(0, 100), OTHERS |-> Dec(30, 100), DEV_LEVY |-> Dec(4, 100),
   MIN_EFFECTIVE_RATE |-> Dec(15, 100), CGT_COMPANY |-> Dec(30, 100)]

INITIAL_CALC_INPUTS ==
  [grossIncome |-> Zero, deductions |-> Zero, cgtGains |-> Zero, whtCredits |-> Zero,
   isSmallCompany |-> FALSE, profitBeforeTax |-> Zero]

\* the desc texts are kept as written in constants.js
STATUTORY_CITATIONS ==
  [PIT_GENERAL |->
     [code |-> "NTA 2025 s.56",
      desc |-> "Establishes progressive Personal Income Tax rates for individuals."],
   CIT_STANDARD |->
     [code |-> "NTA 2025 s.12",
      desc |-> "Provides for the standard Company Income Tax rate of 30%."],
   CIT_SMALL |->
     [code |-> "NTA 2025 s.14",
      desc |-> "Grants 0% CIT exemption for Small Companies to stimulate growth."],
   DEV_LEVY |->
     [code |-> "NTA 2025 s.58",
      desc |-> "Imposes a 4% Development Levy on corporate profits for infrastructure."],
   MIN_TAX_FLOOR |->
     [code |-> "NTA 2025 s.22",
      desc |-> "Ensures a 15% Minimum Effective Tax rate for large corporations."],
   CGT_COMPANY |->
     [code |-> "NTA 2025 s.30",
      desc |-> "Sets Capital Gains Tax rate for companies at 30%."],
   CGT_INDIVIDUAL |->
     [code |-> "NTA 2025 s.56",
      desc |-> "Individuals capital gains are integrated into PIT progressive brackets."],
   WHT_CREDIT |->
     [code |-> "NTAA 2025 s.51",
      desc |-> "Allows for the utilization of Withholding Tax as credits against tax due."]]

VARIABLES
  pitBrackets,  \* the module-level array PIT_BRACKETS as the running program holds it
  citRates,     \* the module-level object CIT_RATES as the running program holds it
  role,         \* App: const [role, setRole] = useState('Individual')
  calcInputs,   \* App: const [calcInputs, setCalcInputs] = useState(INITIAL_CALC_INPUTS)
  results,      \* CalculatorDashboard: the value of useMemo(..., [role, inputs])
  relevantCitations, \* LegalBasisSection: the value of useMemo(..., [role, inputs])
  pitArg,       \* the argument of the latest call of calculatePIT
  pitRes,       \* what that call returned
  prevArg,      \* the argument of the call of calculatePIT before it
  prevRes,      \* what that call returned
  pitVisited,   \* the number of bands the loop of the latest call ran its body for
  citArgs,      \* the arguments of the latest call of calculateCIT
  citRes,       \* what that call returned
  activeTab,    \* App: const [activeTab, setActiveTab] = useState('chat')
  input,        \* App: const [input, setInput] = useState('')
  currentChat,  \* App: const [currentChat, setCurrentChat] = useState([])
  activeChatId, \* App: const [activeChatId, setActiveChatId] = useState(null)
  conversations, \* App: const [conversations, setConversations] = useState([])
  isLoading,    \* App: const [isLoading, setIsLoading] = useState(false)
  error,        \* App: const [error, setError] = useState(null)
  requests,     \* the fetches of App awaiting their response, each with the
                \* position and the captured values of the function awaiting it
  authToken,    \* localStorage: the item 'auth_token'
  chatStorage,  \* localStorage: the item 'chat-storage'
  store,        \* useChatStore: the state object of the store
  storeRequests, \* the fetches of the store's actions awaiting their response
  onLogoutRan   \* whether onLogout has run since the token was last set

vars == <<pitBrackets, citRates, role, calcInputs, results, relevantCitations,
          pitArg, pitRes, prevArg, prevRes, pitVisited, citArgs, citRes,
          activeTab, input, currentChat, activeChatId, conversations, isLoading, error,
          requests, authToken, chatStorage, store, storeRequests, onLogoutRan>>
tableVars == <<pitBrackets, citRates>>
appVars == <<role, calcInputs, results, relevantCitations>>
pitVars == <<pitArg, pitRes, prevArg, prevRes, pitVisited>>
citVars == <<citArgs, citRes>>
chatVars == <<input, currentChat, activeChatId, conversations, isLoading, error, requests>>
storeVars == <<authToken, chatStorage, store, storeRequests, onLogoutRan>>
calcVars == <<tableVars, appVars, pitVars, citVars>>

\* ------------------------------------------------------------------------
\* utils.js: calculatePIT
\* ------------------------------------------------------------------------
\* the band's width taken to be its limit: Math.min(remaining, bracket.limit)
TaxableInThisBracketNoPrev(remaining, bracket, prevLimit) ==
  DMax(Zero, DMin(remaining, bracket.limit))

\* Math.max(0, Math.min(remaining, bracket.limit - prevLimit))
TaxableInThisBracket(remaining, bracket, prevLimit) ==
  DMax(Zero, DMin(remaining, DSub(bracket.limit, prevLimit)))

\* taxableInThisBracket * bracket.rate
TaxForBracket(taxableInThisBracket, bracket) == DMul(taxableInThisBracket, bracket.rate)

\* the row guard written >= 0
PushesRowAlways(taxableInThisBracket) == DGeq(taxableInThisBracket, Zero)

\* if (taxableInThisBracket > 0)
PushesRow(taxableInThisBracket) == DGt(taxableInThisBracket, Zero)

\* the label template; toLocaleString is not applied, the bounds stay Numbers
BracketLabel(bracket, prevLimit) ==
  IF bracket.limit = Infinity
    THEN <<"Above", prevLimit>>
    ELSE <<"Range", DAdd(prevLimit, FromInt(1)), bracket.limit>>

BreakdownRow(bracket, prevLimit, taxableInThisBracket, taxForBracket) ==
  [label |-> BracketLabel(bracket, prevLimit), rate |-> bracket.rate,
   amount |-> taxableInThisBracket, tax |-> taxForBracket, citation |-> bracket.citation]

\* the accumulation written totalTax = taxForBracket
AccumulateTaxOverwrite(totalTax, taxForBracket) == taxForBracket

\* totalTax += taxForBracket
AccumulateTax(totalTax, taxForBracket) == DAdd(totalTax, taxForBracket)

\* remaining -= taxableInThisBracket
Remaining(remaining, taxableInThisBracket) == DSub(remaining, taxableInThisBracket)

\* the break taken unconditionally
LoopBreaksAlways(remaining) == TRUE

\* the loop without its break
LoopBreaksNever(remaining) == FALSE

\* if (remaining <= 0) break
LoopBreaks(remaining) == DLeq(remaining, Zero)

\* One pass of "for (const bracket of PIT_BRACKETS)".  The body is split so that
\* each value the code names once is computed once: PITLoop computes
\* taxableInThisBracket, PITBand taxForBracket, PITRest the updates and the break.
RECURSIVE PITLoop(_, _, _, _, _, _)

PITRest(brackets, i, remaining, totalTax, breakdown) ==
  IF LoopBreaks(remaining)
    THEN [totalTax |-> totalTax, breakdown |-> breakdown, visited |-> i]
    ELSE PITLoop(brackets, i + 1, remaining, totalTax, brackets[i].limit, breakdown)

PITBand(brackets, i, remaining, totalTax, prevLimit, breakdown, taxableInThisBracket, taxForBracket) ==
  PITRest(brackets, i,
          Remaining(remaining, taxableInThisBracket),
          AccumulateTax(totalTax, taxForBracket),
          IF PushesRow(taxableInThisBracket)
            THEN Append(breakdown,
                   BreakdownRow(brackets[i], prevLimit, taxableInThisBracket, taxForBracket))
            ELSE breakdown)

PITTaxed(brackets, i, remaining, totalTax, prevLimit, breakdown, taxableInThisBracket) ==
  PITBand(brackets, i, remaining, totalTax, prevLimit, breakdown,
          taxableInThisBracket, TaxForBracket(taxableInThisBracket, brackets[i]))

PITLoop(brackets, i, remaining, totalTax, prevLimit, breakdown) ==
  IF i > Len(brackets)
    THEN [totalTax |-> totalTax, breakdown |-> breakdown, visited |-> Len(brackets)]
  ELSE PITTaxed(brackets, i, remaining, totalTax, prevLimit, breakdown,
                TaxableInThisBracket(remaining, brackets[i], prevLimit))

\* the run of the loop: the two values returned and the number of bands the
\* loop body ran for
PITRun(brackets, taxableIncome) == PITLoop(brackets, 1, taxableIncome, Zero, Zero, <<>>)

\* return { totalTax, breakdown }
Returned(run) == [totalTax |-> run.totalTax, breakdown |-> run.breakdown]

\* the function run on a given state of the table it iterates over
calculatePITOn(brackets, taxableIncome) == Returned(PITRun(brackets, taxableIncome))

calculatePIT(taxableIncome) == calculatePITOn(pitBrackets, taxableIncome)

\* ------------------------------------------------------------------------
\* utils.js: calculateCIT
\* ------------------------------------------------------------------------
\* Math.max(0, minTaxFloor - combinedCurrentTax)
TopUpTax(minTaxFloor, combinedCurrentTax) == DMax(Zero, DSub(minTaxFloor, combinedCurrentTax))

\* the total without the top-up
TotalCompanyTaxNoTopUp(combinedCurrentTax, topUpTax, companyCGT) ==
  DAdd(combinedCurrentTax, companyCGT)

\* const totalCompanyTax = combinedCurrentTax + topUpTax + companyCGT
TotalCompanyTax(combinedCurrentTax, topUpTax, companyCGT) ==
  DAdd(DAdd(combinedCurrentTax, topUpTax), companyCGT)

\* the returned object
CITResult(citPayable, devLevy, companyCGT, combinedCurrentTax, minTaxFloor, topUpTax) ==
  [citPayable |-> citPayable, devLevy |-> devLevy, companyCGT |-> companyCGT,
   topUpTax |-> topUpTax,
   totalCompanyTax |-> TotalCompanyTax(combinedCurrentTax, topUpTax, companyCGT),
   minTaxFloor |-> minTaxFloor]

CITReconciled(citPayable, devLevy, companyCGT, combinedCurrentTax, minTaxFloor) ==
  CITResult(citPayable, devLevy, companyCGT, combinedCurrentTax, minTaxFloor,
            TopUpTax(minTaxFloor, combinedCurrentTax))

\* the gains tax counted into the tax the floor is compared with
CITCombinedWithGains(rates, profitBeforeTax, citPayable, devLevy, companyCGT) ==
  CITReconciled(citPayable, devLevy, companyCGT,
                DAdd(DAdd(citPayable, devLevy), companyCGT),
                DMul(profitBeforeTax, rates.MIN_EFFECTIVE_RATE))

\* combinedCurrentTax = citPayable + devLevy; minTaxFloor = profitBeforeTax * MIN_EFFECTIVE_RATE
CITCombined(rates, profitBeforeTax, citPayable, devLevy, companyCGT) ==
  CITReconciled(citPayable, devLevy, companyCGT,
                DAdd(citPayable, devLevy),
                DMul(profitBeforeTax, rates.MIN_EFFECTIVE_RATE))

\* a small company charged half the standard rate instead of CIT_RATES.SMALL
BaseRateDiscounted(rates, isSmallCompany) ==
  IF isSmallCompany THEN DMul(rates.OTHERS, Dec(5, 10)) ELSE rates.OTHERS

\* const baseRate = isSmallCompany ? CIT_RATES.SMALL : CIT_RATES.OTHERS
BaseRate(rates, isSmallCompany) == IF isSmallCompany THEN rates.SMALL ELSE rates.OTHERS

\* the function run on a given state of the rates object it reads; the steps
\* follow the statements of the function, each value computed once
calculateCITOn(rates, profitBeforeTax, isSmallCompany, cgtGains) ==
  CITCombined(rates, profitBeforeTax,
              DMul(profitBeforeTax, BaseRate(rates, isSmallCompany)),
              DMul(profitBeforeTax, rates.DEV_LEVY),
              DMul(cgtGains, rates.CGT_COMPANY))

calculateCIT(profitBeforeTax, isSmallCompany, cgtGains) ==
  calculateCITOn(citRates, profitBeforeTax, isSmallCompany, cgtGains)

\* ------------------------------------------------------------------------
\* CalculatorDashboard: results
\* ------------------------------------------------------------------------
\* the base without Math.max(0, ...)
TaxableBaseUnclamped(inputs) == DSub(inputs.grossIncome, inputs.deductions)

\* Math.max(0, inputs.grossIncome - inputs.deductions)
TaxableBase(inputs) == DMax(Zero, DSub(inputs.grossIncome, inputs.deductions))

\* the amount payable without Math.max(0, ...)
NetPayableUnclamped(totalLiability, inputs) == DSub(totalLiability, inputs.whtCredits)

\* Math.max(0, totalLiability - inputs.whtCredits)
NetPayable(totalLiability, inputs) == DMax(Zero, DSub(totalLiability, inputs.whtCredits))

\* the gains stacked on the income base: the tax on base + gains less the tax on base
CgtTaxStacked(brackets, inputs, taxableBase) ==
  DSub(calculatePITOn(brackets, DAdd(taxableBase, inputs.cgtGains)).totalTax,
       calculatePITOn(brackets, taxableBase).totalTax)

\* const { totalTax: cgtTax } = calculatePIT(inputs.cgtGains)
CgtTax(brackets, inputs, taxableBase) == calculatePITOn(brackets, inputs.cgtGains).totalTax

\* const totalLiability = pitTax + cgtTax
IndividualLiability(pitTax, cgtTax) == DAdd(pitTax, cgtTax)

\* inputs.grossIncome + inputs.cgtGains, inputs.profitBeforeTax + inputs.cgtGains
Gross(income, inputs) == DAdd(income, inputs.cgtGains)

\* net income taken after credits: gross less what remains payable
NetIncomeAfterCredits(inputs, gross, totalLiability) ==
  DSub(gross, NetPayable(totalLiability, inputs))

\* (inputs.grossIncome + inputs.cgtGains) - totalLiability, and the same on profit
NetIncome(inputs, gross, totalLiability) == DSub(gross, totalLiability)

\* the object the Individual branch returns
IndividualRecord(inputs, taxableBase, pit, cgtTax, totalLiability, gross) ==
  [taxableBase |-> taxableBase, pitTax |-> pit.totalTax, pitBreakdown |-> pit.breakdown,
   cgtTax |-> cgtTax, totalLiability |-> totalLiability,
   netPayable |-> NetPayable(totalLiability, inputs),
   gross |-> gross,
   netIncome |-> NetIncome(inputs, gross, totalLiability)]

\* gross taken from the company field: inputs.profitBeforeTax + inputs.cgtGains
IndividualTaxedOnProfit(inputs, taxableBase, pit, cgtTax) ==
  IndividualRecord(inputs, taxableBase, pit, cgtTax,
                   IndividualLiability(pit.totalTax, cgtTax),
                   Gross(inputs.profitBeforeTax, inputs))

IndividualTaxed(inputs, taxableBase, pit, cgtTax) ==
  IndividualRecord(inputs, taxableBase, pit, cgtTax,
                   IndividualLiability(pit.totalTax, cgtTax),
                   Gross(inputs.grossIncome, inputs))

IndividualOnBase(brackets, inputs, taxableBase) ==
  IndividualTaxed(inputs, taxableBase,
                  calculatePITOn(brackets, taxableBase),
                  CgtTax(brackets, inputs, taxableBase))

IndividualResults(brackets, inputs) == IndividualOnBase(brackets, inputs, TaxableBase(inputs))

\* the object the other branch returns: { ...r, totalLiability, netPayable, gross, netIncome }
CompanyRecord(inputs, r, gross) ==
  [citPayable |-> r.citPayable, devLevy |-> r.devLevy, companyCGT |-> r.companyCGT,
   topUpTax |-> r.topUpTax, totalCompanyTax |-> r.totalCompanyTax,
   minTaxFloor |-> r.minTaxFloor,
   totalLiability |-> r.totalCompanyTax,
   netPayable |-> NetPayable(r.totalCompanyTax, inputs),
   gross |-> gross,
   netIncome |-> NetIncome(inputs, gross, r.totalCompanyTax)]

CompanyResults(rates, inputs) ==
  CompanyRecord(inputs,
                calculateCITOn(rates, inputs.profitBeforeTax, inputs.isSmallCompany,
                               inputs.cgtGains),
                Gross(inputs.profitBeforeTax, inputs))

\* the amounts the Individual branch calls calculatePIT with
PITArguments(inputs) == {TaxableBase(inputs), inputs.cgtGains}

\* the test written role === 'Individual' alone
IsIndividualOnly(r) == r = "Individual"

\* if (role === 'Individual' || role === 'Advisor') ... else ...
IsIndividualBranch(r) == r = "Individual" \/ r = "Advisor"

ComputeResultsOn(brackets, rates, r, inputs) ==
  IF IsIndividualBranch(r) THEN IndividualResults(brackets, inputs)
  ELSE CompanyResults(rates, inputs)

\* the useMemo callback, on the tables as they are when it runs
ComputeResults(r, inputs) == ComputeResultsOn(pitBrackets, citRates, r, inputs)

\* ------------------------------------------------------------------------
\* LegalBasisSection: relevantCitations
\* ------------------------------------------------------------------------
\* what reading a property the object does not have gives
Undefined == [undefined |-> TRUE]

\* STATUTORY_CITATIONS.<key>
Cite(key) ==
  IF key \in DOMAIN STATUTORY_CITATIONS THEN STATUTORY_CITATIONS[key] ELSE Undefined

\* if (role === 'Individual' || role === 'Advisor') ... else ...
CitesAsIndividual(r) == r = "Individual" \/ r = "Advisor"

\* the gains test written >= 0
CgtAttachedNonNegative(inputs) == DGeq(inputs.cgtGains, Zero)

\* inputs.cgtGains > 0
CgtAttached(inputs) == DGt(inputs.cgtGains, Zero)

\* inputs.whtCredits > 0
WhtAttached(inputs) == DGt(inputs.whtCredits, Zero)

\* the first branch, reading a key the table does not define
IndividualCitationsDangling(inputs) ==
  <<Cite("PIT_GENERAL")>> \o
    (IF CgtAttached(inputs) THEN <<Cite("CGT_PERSONAL")>> ELSE <<>>)

\* the pushes of the first branch
IndividualCitations(inputs) ==
  <<Cite("PIT_GENERAL")>> \o
    (IF CgtAttached(inputs) THEN <<Cite("CGT_INDIVIDUAL")>> ELSE <<>>)

\* the pushes of the else branch
CompanyCitations(inputs) ==
  <<Cite(IF inputs.isSmallCompany THEN "CIT_SMALL" ELSE "CIT_STANDARD"),
    Cite("DEV_LEVY"), Cite("MIN_TAX_FLOOR")>> \o
    (IF CgtAttached(inputs) THEN <<Cite("CGT_COMPANY")>> ELSE <<>>)

\* the useMemo callback of LegalBasisSection
RelevantCitations(r, inputs) ==
  (IF CitesAsIndividual(r) THEN IndividualCitations(inputs) ELSE CompanyCitations(inputs))
    \o (IF WhtAttached(inputs) THEN <<Cite("WHT_CREDIT")>> ELSE <<>>)

\* ------------------------------------------------------------------------
\* Inputs the model enumerates
\* ------------------------------------------------------------------------
MaxGrid == 8
GridStep == 7000000

BandLimits == {800000, 3000000, 12000000, 25000000, 50000000}

\* amounts calculatePIT is called with: zero, small amounts, every band limit
\* and its two neighbours, and a grid up to past the last finite limit
PITInputs ==
  {0, 1, 76, 100000000, 2000000000} \cup {l + d : l \in BandLimits, d \in {-1, 0, 1}}
    \cup {k * GridStep : k \in 1..MaxGrid}

CITProfits == {-1000000, 0, 1, 76, 100, 2604, 5108, 90774, 1000000, 10000000, 47887538, 439123186}
CITGains == {0, 1, 76, 1000000, 47887538}

\* what e.target.value of a number input holds: nothing, or the text of a number
Texts(S) == {<<>>} \cup {<<n>> : n \in S}

GrossTexts == Texts({2000000, 60000000})
DeductionTexts == Texts({500000, 3000000})
GainsTexts == Texts({-1000000, 500000, 5000000})
CreditTexts == Texts({50000, 90000000})
ProfitTexts == Texts({-1000000, 76, 10000000})

FieldTexts(name) ==
  CASE name = "grossIncome" -> GrossTexts
    [] name = "deductions" -> DeductionTexts
    [] name = "cgtGains" -> GainsTexts
    [] name = "whtCredits" -> CreditTexts
    [] name = "profitBeforeTax" -> ProfitTexts

NumberFields == {"grossIncome", "deductions", "cgtGains", "whtCredits", "profitBeforeTax"}

\* the inputs the dashboard renders for a role
Rendered(r, name) ==
  CASE name \in {"profitBeforeTax", "isSmallCompany"} -> r = "Company"
    [] name \in {"grossIncome", "deductions"} -> r # "Company"
    [] OTHER -> TRUE

\* parseFloat(value) || 0
ParseFloatOrZero(text) == IF text = <<>> THEN Zero ELSE FromInt(text[1])

\* ------------------------------------------------------------------------
\* App: the chat (the later version of App in App.jsx)
\* ------------------------------------------------------------------------
\* null, for activeChatId and the token
Null == "null"

\* the most messages a chat holds when a message is sent
MaxChat == 3
\* the most fetches awaiting a response when a handler starts another
MaxRequests == 2
\* the most versions a message holds when it is regenerated
MaxVersions == 2

\* what the backend may answer with: session ids, replies, message lists
SessionIds == {"s1", "s2"}
Responses == {"r2"}

\* what the user types, as a sequence of characters
InputTexts == {<<>>, <<" ">>, <<"a", " ">>}

\* String.prototype.trim
RECURSIVE TrimStart(_)
TrimStart(text) == IF text # <<>> /\ Head(text) = " " THEN TrimStart(Tail(text)) ELSE text

RECURSIVE TrimEnd(_)
TrimEnd(text) == IF text # <<>> /\ text[Len(text)] = " " THEN TrimEnd(SubSeq(text, 1, Len(text) - 1)) ELSE text

Trim(text) == TrimEnd(TrimStart(text))

\* a message object: { role, content, isGreeting, versions, currentVersionIndex };
\* versions = <<>> stands for a message without the versions property
Message(r, content, isGreeting) == [role |-> r, content |-> content, isGreeting |-> isGreeting, versions |-> <<>>, currentVersionIndex |-> 0]

\* { role: 'assistant', content: greeting, isGreeting: true }
Greeting == Message("assistant", <<"greeting">>, TRUE)

\* the message lists the history endpoint may return
Histories ==
  {<<>>,
   <<Message("human", <<"a">>, FALSE), Message("ai", <<"r1">>, FALSE)>>}

\* the session lists the sessions endpoint may return, as session ids
SessionLists == {<<>>, <<"s2", "s1">>}

\* m.role === 'assistant' || m.role === 'ai'
IsAssistant(m) == m.role = "assistant" \/ m.role = "ai"

\* the largest element of a non-empty set of numbers
Greatest(S) == CHOOSE n \in S : \A m \in S : m <= n

\* [...chat].reverse().findIndex(m => roles.includes(m.role)), -1 when none matches
ReverseFindIndexFrom(chat, hits) == IF hits = {} THEN -1 ELSE Len(chat) - Greatest(hits)

ReverseFindIndex(chat, roles) == ReverseFindIndexFrom(chat, {i \in 1..Len(chat) : chat[i].role \in roles})

\* currentChat.length - 1 - [...currentChat].reverse().findIndex(assistant or ai):
\* a position counted from 0, equal to the length when no message matches
LastAssistantIndex(chat) == Len(chat) - 1 - ReverseFindIndex(chat, {"assistant", "ai"})

\* the position, counted from 1, of the last human message; 0 when there is none
LastHumanPosition(chat) == IF ReverseFindIndex(chat, {"human"}) = -1 THEN 0 ELSE Len(chat) - ReverseFindIndex(chat, {"human"})

\* lastAssistant.versions || [{ content: lastAssistant.content, ... }]
ExistingVersions(m) == IF m.versions = <<>> THEN <<m.content>> ELSE m.versions

\* { ...lastAssistant, content: data.response, versions: newVersions, currentVersionIndex: 0 }
Regenerated(m, response) == [m EXCEPT !.content = response, !.versions = <<response>> \o ExistingVersions(m), !.currentVersionIndex = 0]

\* the updater of handleRegenerate: newChat[lastAssistantIndex] rewritten when it
\* exists and is an assistant message
Rewritten(chat, index, response) ==
  IF index + 1 \in DOMAIN chat /\ IsAssistant(chat[index + 1])
    THEN [chat EXCEPT ![index + 1] = Regenerated(chat[index + 1], response)]
    ELSE chat

\* a fetch awaiting its response: the function that awaits it, what it awaits,
\* and the values the function holds (a session id, a position, a token)
Request(op, awaits, id, index) == [op |-> op, awaits |-> awaits, id |-> id, index |-> index]

\* a list without its i-th element
Without(s, i) == SubSeq(s, 1, i - 1) \o SubSeq(s, i + 1, Len(s))

\* prev.filter(c => c.session_id !== id)
RECURSIVE FilterOut(_, _)
FilterOut(list, id) ==
  IF list = <<>> THEN <<>>
  ELSE IF Head(list) = id THEN FilterOut(Tail(list), id)
  ELSE <<Head(list)>> \o FilterOut(Tail(list), id)

\* the session ids of a list
Ids(list) == {list[i] : i \in DOMAIN list}

\* the effect on [activeChatId]: the greeting for null, else the history is fetched
ChatAfterEffect(chat, before, after) == IF after # before /\ after = Null THEN <<Greeting>> ELSE chat

RequestsAfterEffect(reqs, before, after) ==
  IF after # before /\ after # Null
    THEN Append(reqs, Request("fetchCurrentChat", "history", after, 0))
    ELSE reqs

\* ------------------------------------------------------------------------
\* chatStore.js: useChatStore with its persistence, and AuthContext's token
\* ------------------------------------------------------------------------
\* the token the backend issues to the user, and the sessions of that user
Tokens == {"t1"}
SessionsOf(token) == IF token = "t1" THEN <<"s1">> ELSE <<>>

\* what GET /sessions may answer to a request made with the token
SessionListsOf(token) == {<<>>, SessionsOf(token)}
StoreSessionLists == UNION {SessionListsOf(token) : token \in Tokens}

UserRoles == {"taxpayer", "company"}

\* the most messages the store's chat holds when sendMessage adds one
MaxStoreChat == 2

\* what sendMessage is called with
Contents == {<<>>, <<"a">>}

\* const initialState = { currentChat: [], conversations: [], activeChatId: null, ... }
initialState == [currentChat |-> <<>>, conversations |-> <<>>, activeChatId |-> Null, userRole |-> "taxpayer", isLoading |-> FALSE, error |-> FALSE]

\* partialize: (state) => ({ conversations: state.conversations, userRole: state.userRole })
Partialize(state) == [conversations |-> state.conversations, userRole |-> state.userRole]

\* createAuthAwareStorage.setItem, called by persist after every set: the entry
\* is written only while localStorage holds a token
SetItem(token, entry, state) == IF token # Null THEN <<Partialize(state)>> ELSE entry

\* the item 'chat-storage' is held as a list: empty when localStorage has no
\* such item, else the one stored object
NoItem == <<>>

\* createAuthAwareStorage.getItem: null without a token
GetItem(token, entry) == IF token = Null THEN NoItem ELSE entry

\* set(...) of the store, persisted
Set(state) ==
  /\ store' = state
  /\ chatStorage' = SetItem(authToken, chatStorage, state)

\* initializeGreeting, applied to a state
WithGreeting(state) == [state EXCEPT !.currentChat = <<Greeting>>, !.activeChatId = Null]

\* addMessage, applied to a state
WithMessage(state, message) == [state EXCEPT !.currentChat = Append(state.currentChat, message)]

\* a fetch of the store awaiting its response, with what the action that awaits
\* it still uses of the values it read: the session id, the token
StoreRequest(op, id, token) == [op |-> op, id |-> id, token |-> token]

\* ------------------------------------------------------------------------
\* State machine
\* ------------------------------------------------------------------------
Init ==
  /\ pitBrackets = PIT_BRACKETS
  /\ citRates = CIT_RATES
  /\ role = "Individual"
  /\ calcInputs = INITIAL_CALC_INPUTS
  /\ results = ComputeResultsOn(PIT_BRACKETS, CIT_RATES, "Individual", INITIAL_CALC_INPUTS)
  /\ relevantCitations = RelevantCitations("Individual", INITIAL_CALC_INPUTS)
  /\ pitArg = Zero
  /\ pitRes = calculatePITOn(PIT_BRACKETS, Zero)
  /\ prevArg = Zero
  /\ prevRes = calculatePITOn(PIT_BRACKETS, Zero)
  /\ pitVisited = PITRun(PIT_BRACKETS, Zero).visited
  /\ citArgs = [profitBeforeTax |-> Zero, isSmallCompany |-> FALSE, cgtGains |-> Zero]
  /\ citRes = calculateCITOn(CIT_RATES, Zero, FALSE, Zero)
  /\ activeTab = "chat"
  /\ input = <<>>
  /\ currentChat = <<Greeting>>
  /\ activeChatId = Null
  /\ conversations = <<>>
  /\ isLoading = FALSE
  /\ error = FALSE
  /\ requests = <<Request("fetchSessions", "sessions", Null, 0)>>
  /\ authToken = Null
  /\ chatStorage = NoItem
  /\ store = initialState
  /\ storeRequests = <<>>
  /\ onLogoutRan = FALSE

\* Header: onClick={() => setActiveTab('chat')} and setActiveTab('tools')
SetActiveTab(tab) ==
  /\ activeTab' = tab
  /\ UNCHANGED <<calcVars, chatVars, storeVars>>

\* the buttons passing the ids the role dropdown of the chat uses
RoleId(r) == IF r = "Company" THEN "company" ELSE "taxpayer"

\* setRole called with the id of the role instead of its name
SetRoleById(r) ==
  /\ activeTab # "chat"
  /\ role' = RoleId(r)
  /\ results' = ComputeResults(RoleId(r), calcInputs)
  /\ relevantCitations' = RelevantCitations(RoleId(r), calcInputs)
  /\ UNCHANGED <<calcInputs, tableVars, pitVars, citVars, activeTab, chatVars, storeVars>>

\* App: onClick={() => setRole(r)} for r of ['Individual', 'Company']
SetRole(r) ==
  /\ activeTab # "chat"
  /\ role' = r
  /\ results' = ComputeResults(r, calcInputs)
  /\ relevantCitations' = RelevantCitations(r, calcInputs)
  /\ UNCHANGED <<calcInputs, tableVars, pitVars, citVars, activeTab, chatVars, storeVars>>

\* the handler, with a computation that consumes the band table (PIT_BRACKETS.shift())
HandleInputChangeShifting(name, text) ==
  /\ activeTab # "chat"
  /\ Rendered(role, name)
  /\ calcInputs' = [calcInputs EXCEPT ![name] = ParseFloatOrZero(text)]
  /\ results' = ComputeResults(role, calcInputs')
  /\ relevantCitations' = RelevantCitations(role, calcInputs')
  /\ pitBrackets' = IF pitBrackets = <<>> THEN pitBrackets ELSE Tail(pitBrackets)
  /\ UNCHANGED <<role, citRates, pitVars, citVars, activeTab, chatVars, storeVars>>

\* CalculatorDashboard.handleInputChange, from one of the number inputs
HandleInputChange(name, text) ==
  /\ activeTab # "chat"
  /\ Rendered(role, name)
  /\ calcInputs' = [calcInputs EXCEPT ![name] = ParseFloatOrZero(text)]
  /\ results' = ComputeResults(role, calcInputs')
  /\ relevantCitations' = RelevantCitations(role, calcInputs')
  /\ UNCHANGED <<role, tableVars, pitVars, citVars, activeTab, chatVars, storeVars>>

\* the two Company Category buttons
SetSmallCompany(b) ==
  /\ activeTab # "chat"
  /\ Rendered(role, "isSmallCompany")
  /\ calcInputs' = [calcInputs EXCEPT !.isSmallCompany = b]
  /\ results' = ComputeResults(role, calcInputs')
  /\ relevantCitations' = RelevantCitations(role, calcInputs')
  /\ UNCHANGED <<role, tableVars, pitVars, citVars, activeTab, chatVars, storeVars>>

\* a clear that also puts the role back to 'Individual'
HandleClearCalcAndRole(confirmed) ==
  /\ activeTab # "chat"
  /\ calcInputs' = IF confirmed THEN INITIAL_CALC_INPUTS ELSE calcInputs
  /\ role' = IF confirmed THEN "Individual" ELSE role
  /\ results' = ComputeResults(role', calcInputs')
  /\ relevantCitations' = RelevantCitations(role', calcInputs')
  /\ UNCHANGED <<tableVars, pitVars, citVars, activeTab, chatVars, storeVars>>

\* App.handleClearCalc, the user answering the confirm dialog
HandleClearCalc(confirmed) ==
  /\ activeTab # "chat"
  /\ calcInputs' = IF confirmed THEN INITIAL_CALC_INPUTS ELSE calcInputs
  /\ results' = ComputeResults(role, calcInputs')
  /\ relevantCitations' = RelevantCitations(role, calcInputs')
  /\ UNCHANGED <<role, tableVars, pitVars, citVars, activeTab, chatVars, storeVars>>

Next ==
  \/ \E tab \in {"chat", "tools"} : SetActiveTab(tab)
  \/ \E r \in {"Individual", "Company"} : SetRole(r)
  \/ \E name \in NumberFields : \E text \in FieldTexts(name) : HandleInputChange(name, text)
  \/ \E b \in BOOLEAN : SetSmallCompany(b)
  \/ \E confirmed \in BOOLEAN : HandleClearCalc(confirmed)

Spec == Init /\ [][Next]_vars

\* a call of calculatePIT whose loop ran as given
CallPITRun(x, run) ==
  /\ prevArg' = pitArg
  /\ prevRes' = pitRes
  /\ pitArg' = x
  /\ pitRes' = Returned(run)
  /\ pitVisited' = run.visited
  /\ UNCHANGED <<tableVars, appVars, citVars, activeTab, chatVars, storeVars>>

\* a call of calculatePIT
CallPIT(x) == CallPITRun(FromInt(x), PITRun(pitBrackets, FromInt(x)))

NextPIT == \E x \in PITInputs : CallPIT(x)

SpecPIT == Init /\ [][NextPIT]_vars

\* amounts a number input also accepts: fractions of a naira, and amounts whose
\* Number no longer holds every naira (at and above 2^59 the spacing is 128)
LargeAmounts == {DMul(FromInt(k * 1000000000), FromInt(1000000000)) : k \in {1, 2}}
FractionalAmounts == {Dec(8000001, 10), Dec(30000005, 10), Dec(1, 100)}
WideInputs ==
  LargeAmounts \cup FractionalAmounts \cup
    {FromInt(0), FromInt(800000), FromInt(800001), FromInt(56000000),
     DMul(FromInt(1000000000), FromInt(1000000)), DMul(FromInt(1000000000), FromInt(100000000))}

\* a call of calculatePIT with one of those amounts
CallPITWide(x) == CallPITRun(x, PITRun(pitBrackets, x))

NextPITWide == \E x \in WideInputs : CallPITWide(x)

SpecPITWide == Init /\ [][NextPITWide]_vars

\* a call of calculateCIT
CallCIT(p, small, g) ==
  /\ citArgs' = [profitBeforeTax |-> FromInt(p), isSmallCompany |-> small,
                 cgtGains |-> FromInt(g)]
  /\ citRes' = calculateCIT(FromInt(p), small, FromInt(g))
  /\ UNCHANGED <<tableVars, appVars, pitVars, activeTab, chatVars, storeVars>>

NextCIT == \E p \in CITProfits : \E small \in BOOLEAN : \E g \in CITGains : CallCIT(p, small, g)

SpecCIT == Init /\ [][NextCIT]_vars

\* ------------------------------------------------------------------------
\* App: the chat handlers
\* ------------------------------------------------------------------------
\* ChatInput: onChange={(e) => setInput(e.target.value)}
SetInput(text) ==
  /\ activeTab = "chat"
  /\ input' = text
  /\ UNCHANGED <<calcVars, activeTab, storeVars>>
  /\ UNCHANGED <<currentChat, activeChatId, conversations, isLoading, error, requests>>

\* handleSendMessage, up to its first await
HandleSendMessage ==
  /\ activeTab = "chat"
  /\ IF Trim(input) = <<>> \/ isLoading
       THEN UNCHANGED chatVars
       ELSE /\ Len(currentChat) < MaxChat
            /\ Len(requests) < MaxRequests
            /\ input' = <<>>
            /\ isLoading' = TRUE
            /\ error' = FALSE
            /\ currentChat' = Append(currentChat, Message("human", Trim(input), FALSE))
            /\ requests' = Append(requests, Request("handleSendMessage", "chat", activeChatId, 0))
            /\ UNCHANGED <<activeChatId, conversations>>
  /\ UNCHANGED <<calcVars, activeTab, storeVars>>

\* handleSendMessage, from the response of POST /chat to the next await; a
\* response that is not ok goes through catch and finally
SendChatResponds(i, ok, sid, response) ==
  /\ i \in DOMAIN requests
  /\ requests[i].op = "handleSendMessage" /\ requests[i].awaits = "chat"
  /\ requests[i].id # Null => sid = requests[i].id
  /\ IF ok
       THEN /\ activeChatId' = IF sid # requests[i].id THEN sid ELSE activeChatId
            /\ currentChat' = Append(currentChat, Message("assistant", response, FALSE))
            /\ requests' = RequestsAfterEffect(
                             [requests EXCEPT ![i] = Request("handleSendMessage", "sessions", sid, 0)],
                             activeChatId, activeChatId')
            /\ UNCHANGED <<isLoading, error>>
       ELSE /\ error' = TRUE
            /\ isLoading' = FALSE
            /\ requests' = Without(requests, i)
            /\ UNCHANGED <<activeChatId, currentChat>>
  /\ UNCHANGED <<calcVars, activeTab, input, conversations, storeVars>>

\* handleSendMessage, from the response of GET /sessions to the next await
SendSessionsResponds(i, ok, list) ==
  /\ i \in DOMAIN requests
  /\ requests[i].op = "handleSendMessage" /\ requests[i].awaits = "sessions"
  /\ conversations' = IF ok THEN list ELSE conversations
  /\ requests' = [requests EXCEPT ![i] = Request("handleSendMessage", "history", requests[i].id, 0)]
  /\ UNCHANGED <<calcVars, activeTab, input, currentChat, activeChatId, isLoading, error, storeVars>>

\* handleSendMessage, from the response of GET /sessions/:id/history to its end
SendHistoryResponds(i, ok, messages) ==
  /\ i \in DOMAIN requests
  /\ requests[i].op = "handleSendMessage" /\ requests[i].awaits = "history"
  /\ currentChat' = IF ok THEN messages ELSE currentChat
  /\ isLoading' = FALSE
  /\ requests' = Without(requests, i)
  /\ UNCHANGED <<calcVars, activeTab, input, activeChatId, conversations, error, storeVars>>

\* MessageBubble renders the Regenerate button on the messages that are neither
\* the user's nor the greeting
RegenerateRendered(chat) == \E k \in DOMAIN chat : chat[k].role # "human" /\ ~chat[k].isGreeting

\* handleRegenerate, up to its await
HandleRegenerate ==
  /\ activeTab = "chat"
  /\ RegenerateRendered(currentChat)
  /\ IF isLoading \/ Len(currentChat) < 2 \/ ReverseFindIndex(currentChat, {"human"}) = -1
       THEN UNCHANGED chatVars
       ELSE /\ Len(requests) < MaxRequests
            /\ \A k \in DOMAIN currentChat : Len(currentChat[k].versions) < MaxVersions
            /\ isLoading' = TRUE
            /\ error' = FALSE
            /\ requests' = Append(requests, Request("handleRegenerate", "chat", activeChatId,
                                                    LastAssistantIndex(currentChat)))
            /\ UNCHANGED <<input, currentChat, activeChatId, conversations>>
  /\ UNCHANGED <<calcVars, activeTab, storeVars>>

\* handleRegenerate, from the response of POST /chat to its end
RegenerateResponds(i, ok, response) ==
  /\ i \in DOMAIN requests
  /\ requests[i].op = "handleRegenerate"
  /\ currentChat' = IF ok THEN Rewritten(currentChat, requests[i].index, response) ELSE currentChat
  /\ error' = IF ok THEN error ELSE TRUE
  /\ isLoading' = FALSE
  /\ requests' = Without(requests, i)
  /\ UNCHANGED <<calcVars, activeTab, input, activeChatId, conversations, storeVars>>

\* handleVersionChange
HandleVersionChange(messageIndex, versionIndex) ==
  /\ activeTab = "chat"
  /\ messageIndex + 1 \in DOMAIN currentChat
  /\ currentChat' =
       IF versionIndex + 1 \in DOMAIN currentChat[messageIndex + 1].versions
         THEN [currentChat EXCEPT ![messageIndex + 1].currentVersionIndex = versionIndex]
         ELSE currentChat
  /\ UNCHANGED <<calcVars, activeTab, input, activeChatId, conversations, isLoading, error, requests, storeVars>>

\* handleEdit: setInput(content), from the Edit button of a message of the user
HandleEdit(messageIndex) ==
  /\ activeTab = "chat"
  /\ messageIndex + 1 \in DOMAIN currentChat
  /\ currentChat[messageIndex + 1].role = "human"
  /\ input' = currentChat[messageIndex + 1].content
  /\ UNCHANGED <<calcVars, activeTab, currentChat, activeChatId, conversations, isLoading, error, requests, storeVars>>

\* Header: the role dropdown of the chat changes userRole, and the effect on
\* [activeChatId, userRole] runs again: the greeting of the new role for null,
\* else the history is fetched
SetUserRoleOfChat ==
  /\ activeTab = "chat"
  /\ Len(requests) < MaxRequests
  /\ currentChat' = IF activeChatId = Null THEN <<Greeting>> ELSE currentChat
  /\ requests' = IF activeChatId = Null THEN requests
                 ELSE Append(requests, Request("fetchCurrentChat", "history", activeChatId, 0))
  /\ UNCHANGED <<calcVars, activeTab, input, activeChatId, conversations, isLoading, error, storeVars>>

\* handleNewChat, and the effect on [activeChatId]
HandleNewChat ==
  /\ activeTab' = "chat"
  /\ activeChatId' = Null
  /\ input' = <<>>
  /\ currentChat' = ChatAfterEffect(currentChat, activeChatId, Null)
  /\ UNCHANGED <<calcVars, conversations, isLoading, error, requests, storeVars>>

\* Sidebar: setActiveChatId(chat.session_id); setActiveTab('chat'), and the effect
SelectChat(id) ==
  /\ id \in Ids(conversations)
  /\ Len(requests) < MaxRequests
  /\ activeChatId' = id
  /\ activeTab' = "chat"
  /\ requests' = RequestsAfterEffect(requests, activeChatId, id)
  /\ UNCHANGED <<calcVars, input, currentChat, conversations, isLoading, error, storeVars>>

\* the effect's fetchCurrentChat, from the response of the history to its end
FetchCurrentChatResponds(i, messages) ==
  /\ i \in DOMAIN requests
  /\ requests[i].op = "fetchCurrentChat"
  /\ currentChat' = messages
  /\ requests' = Without(requests, i)
  /\ UNCHANGED <<calcVars, activeTab, input, activeChatId, conversations, isLoading, error, storeVars>>

\* the effect fetchSessions run on mount, from the response to its end
FetchSessionsResponds(i, ok, list) ==
  /\ i \in DOMAIN requests
  /\ requests[i].op = "fetchSessions"
  /\ conversations' = IF ok THEN list ELSE conversations
  /\ requests' = Without(requests, i)
  /\ UNCHANGED <<calcVars, activeTab, input, currentChat, activeChatId, isLoading, error, storeVars>>

\* deleteChat, up to its await: the fetch is outside the if (confirm(...))
DeleteChat(id, confirmed) ==
  /\ id \in Ids(conversations)
  /\ Len(requests) < MaxRequests
  /\ conversations' = IF confirmed THEN FilterOut(conversations, id) ELSE conversations
  /\ activeChatId' = IF confirmed /\ activeChatId = id THEN Null ELSE activeChatId
  /\ currentChat' = ChatAfterEffect(currentChat, activeChatId, activeChatId')
  /\ requests' = Append(requests, Request("deleteChat", "delete", id, 0))
  /\ UNCHANGED <<calcVars, activeTab, input, isLoading, error, storeVars>>

\* deleteChat, from the response of DELETE to its end (an alert)
DeleteResponds(i) ==
  /\ i \in DOMAIN requests
  /\ requests[i].op = "deleteChat"
  /\ requests' = Without(requests, i)
  /\ UNCHANGED <<calcVars, activeTab, input, currentChat, activeChatId, conversations, isLoading, error, storeVars>>

NextChat ==
  \/ \E tab \in {"chat", "tools"} : SetActiveTab(tab)
  \/ \E text \in InputTexts : SetInput(text)
  \/ HandleSendMessage
  \/ \E i \in 1..(MaxRequests + 1) : \E ok \in BOOLEAN : \E sid \in SessionIds : \E response \in Responses : SendChatResponds(i, ok, sid, <<response>>)
  \/ \E i \in 1..(MaxRequests + 1) : \E ok \in BOOLEAN : \E list \in SessionLists : SendSessionsResponds(i, ok, list)
  \/ \E i \in 1..(MaxRequests + 1) : \E ok \in BOOLEAN : \E messages \in Histories : SendHistoryResponds(i, ok, messages)
  \/ HandleRegenerate
  \/ \E i \in 1..(MaxRequests + 1) : \E ok \in BOOLEAN : \E response \in Responses : RegenerateResponds(i, ok, <<response>>)
  \/ \E messageIndex \in 0..MaxChat : \E versionIndex \in 0..MaxVersions : HandleVersionChange(messageIndex, versionIndex)
  \/ \E messageIndex \in 0..MaxChat : HandleEdit(messageIndex)
  \/ SetUserRoleOfChat
  \/ HandleNewChat
  \/ \E id \in SessionIds : SelectChat(id)
  \/ \E i \in 1..(MaxRequests + 1) : \E messages \in Histories : FetchCurrentChatResponds(i, messages)
  \/ \E i \in 1..(MaxRequests + 1) : \E ok \in BOOLEAN : \E list \in SessionLists : FetchSessionsResponds(i, ok, list)
  \/ \E id \in SessionIds : \E confirmed \in BOOLEAN : DeleteChat(id, confirmed)
  \/ \E i \in 1..(MaxRequests + 1) : DeleteResponds(i)

SpecChat == Init /\ [][NextChat]_vars

\* ------------------------------------------------------------------------
\* chatStore.js and AuthContext.jsx: the actions
\* ------------------------------------------------------------------------
\* AuthContext.login, signup, googleSignIn on success: localStorage.setItem('auth_token', data.token)
Login(token) ==
  /\ authToken = Null
  /\ authToken' = token
  /\ onLogoutRan' = FALSE
  /\ UNCHANGED <<calcVars, activeTab, chatVars, chatStorage, store, storeRequests>>

\* AuthContext.logout: localStorage.removeItem('auth_token')
Logout ==
  /\ authToken # Null
  /\ authToken' = Null
  /\ UNCHANGED <<calcVars, activeTab, chatVars, chatStorage, store, storeRequests, onLogoutRan>>

\* the page loaded again: the store is created and persist rehydrates it from
\* getItem, then writes the state back through setItem; fetches in flight are gone
Rehydrate ==
  /\ store' = IF GetItem(authToken, chatStorage) = NoItem
                THEN initialState
                ELSE [initialState EXCEPT !.conversations = chatStorage[1].conversations, !.userRole = chatStorage[1].userRole]
  /\ chatStorage' = SetItem(authToken, chatStorage, store')
  /\ storeRequests' = <<>>
  /\ UNCHANGED <<calcVars, activeTab, chatVars, authToken, onLogoutRan>>

\* setUserRole
SetUserRole(r) ==
  /\ Set([store EXCEPT !.userRole = r])
  /\ UNCHANGED <<calcVars, activeTab, chatVars, authToken, storeRequests, onLogoutRan>>

\* initializeGreeting
InitializeGreeting ==
  /\ Set(WithGreeting(store))
  /\ UNCHANGED <<calcVars, activeTab, chatVars, authToken, storeRequests, onLogoutRan>>

\* setActiveChatId, up to its await (or to its end, for null)
SetActiveChatId(chatId) ==
  /\ Len(storeRequests) < MaxRequests
  /\ IF chatId # Null
       THEN /\ Set([store EXCEPT !.activeChatId = chatId])
            /\ storeRequests' = Append(storeRequests, StoreRequest("setActiveChatId", Null, Null))
       ELSE /\ Set(WithGreeting(store))
            /\ UNCHANGED storeRequests
  /\ UNCHANGED <<calcVars, activeTab, chatVars, authToken, onLogoutRan>>

\* setActiveChatId, from the response of the history to its end
SetActiveChatIdResponds(i, ok, messages) ==
  /\ i \in DOMAIN storeRequests
  /\ storeRequests[i].op = "setActiveChatId"
  /\ Set(IF ok THEN [store EXCEPT !.currentChat = messages] ELSE store)
  /\ storeRequests' = Without(storeRequests, i)
  /\ UNCHANGED <<calcVars, activeTab, chatVars, authToken, onLogoutRan>>

\* fetchConversations as a step inside another action: what it does to the
\* state and to the fetches, up to its await
ConversationsCleared(state) == [state EXCEPT !.conversations = <<>>]

\* fetchConversations, up to its await (or to its end, for a guest)
FetchConversations ==
  /\ Len(storeRequests) < MaxRequests
  /\ IF authToken = Null
       THEN /\ Set(ConversationsCleared(store))
            /\ UNCHANGED storeRequests
       ELSE /\ storeRequests' = Append(storeRequests, StoreRequest("fetchConversations", Null, authToken))
            /\ UNCHANGED <<store, chatStorage>>
  /\ UNCHANGED <<calcVars, activeTab, chatVars, authToken, onLogoutRan>>

\* fetchConversations, from the response to its end: set({ conversations: data || [] })
FetchConversationsResponds(i, ok, data) ==
  /\ i \in DOMAIN storeRequests
  /\ storeRequests[i].op = "fetchConversations"
  /\ data \in SessionListsOf(storeRequests[i].token)
  /\ Set(IF ok THEN [store EXCEPT !.conversations = data] ELSE store)
  /\ storeRequests' = Without(storeRequests, i)
  /\ UNCHANGED <<calcVars, activeTab, chatVars, authToken, onLogoutRan>>

\* sendMessage, up to its await
SendMessage(content) ==
  /\ IF Trim(content) = <<>>
       THEN UNCHANGED <<store, chatStorage, storeRequests>>
       ELSE /\ Len(store.currentChat) < MaxStoreChat
            /\ Len(storeRequests) < MaxRequests
            /\ Set(WithMessage([store EXCEPT !.isLoading = TRUE, !.error = FALSE],
                               Message("human", content, FALSE)))
            /\ storeRequests' = Append(storeRequests, StoreRequest("sendMessage", store.activeChatId, authToken))
  /\ UNCHANGED <<calcVars, activeTab, chatVars, authToken, onLogoutRan>>

\* the state sendMessage leaves after a response that is ok
AfterReply(state, captured, sid, response) ==
  WithMessage([state EXCEPT !.activeChatId = IF sid # captured THEN sid ELSE @, !.isLoading = FALSE],
              Message("assistant", response, FALSE))

\* sendMessage, from the response of POST /chat to its end; with a token it
\* calls fetchConversations, which reads the token again
SendMessageResponds(i, ok, sid, response) ==
  /\ i \in DOMAIN storeRequests
  /\ storeRequests[i].op = "sendMessage"
  /\ storeRequests[i].id # Null => sid = storeRequests[i].id
  /\ IF ~ok
       THEN /\ Set([store EXCEPT !.error = TRUE, !.isLoading = FALSE])
            /\ storeRequests' = Without(storeRequests, i)
       ELSE IF storeRequests[i].token = Null
         THEN /\ Set(AfterReply(store, storeRequests[i].id, sid, response))
              /\ storeRequests' = Without(storeRequests, i)
         ELSE IF authToken = Null
           THEN /\ Set(ConversationsCleared(AfterReply(store, storeRequests[i].id, sid, response)))
                /\ storeRequests' = Without(storeRequests, i)
           ELSE /\ Set(AfterReply(store, storeRequests[i].id, sid, response))
                /\ storeRequests' = Append(Without(storeRequests, i),
                                           StoreRequest("fetchConversations", Null, authToken))
  /\ UNCHANGED <<calcVars, activeTab, chatVars, authToken, onLogoutRan>>

\* regenerateResponse, up to its await
RegenerateResponse ==
  /\ IF Len(store.currentChat) < 2 \/ ReverseFindIndex(store.currentChat, {"human"}) = -1
       THEN UNCHANGED <<store, chatStorage, storeRequests>>
       ELSE /\ Len(storeRequests) < MaxRequests
            /\ \A k \in DOMAIN store.currentChat : Len(store.currentChat[k].versions) < MaxVersions
            /\ Set([store EXCEPT !.isLoading = TRUE, !.error = FALSE])
            /\ storeRequests' = Append(storeRequests, StoreRequest("regenerateResponse", Null, Null))
  /\ UNCHANGED <<calcVars, activeTab, chatVars, authToken, onLogoutRan>>

\* updateLastAssistantMessage: the test lastAssistantIndex >= 0 always passes, and
\* with no assistant message newChat[length] is undefined and reading its
\* versions throws a TypeError
Throws(chat) == LastAssistantIndex(chat) + 1 \notin DOMAIN chat

\* newChat[lastAssistantIndex] = { ...lastAssistant, content: newContent, versions, ... }
RewrittenAt(chat, position, response) == [chat EXCEPT ![position] = Regenerated(chat[position], response)]

UpdateLastAssistantMessage(state, response) ==
  [state EXCEPT !.currentChat =
     RewrittenAt(state.currentChat, LastAssistantIndex(state.currentChat) + 1, response)]

\* regenerateResponse, from the response of POST /chat to its end; the
\* TypeError of updateLastAssistantMessage is caught by its catch
RegenerateResponseResponds(i, ok, response) ==
  /\ i \in DOMAIN storeRequests
  /\ storeRequests[i].op = "regenerateResponse"
  /\ Set(IF ok /\ ~Throws(store.currentChat)
           THEN [UpdateLastAssistantMessage(store, response) EXCEPT !.isLoading = FALSE]
           ELSE [store EXCEPT !.error = TRUE, !.isLoading = FALSE])
  /\ storeRequests' = Without(storeRequests, i)
  /\ UNCHANGED <<calcVars, activeTab, chatVars, authToken, onLogoutRan>>

\* the state deleteConversation leaves: the session filtered out, and the
\* greeting whenever activeChatId is null afterwards
AfterDelete(state) == IF state.activeChatId = Null THEN WithGreeting(state) ELSE state

\* deleteConversation, up to its await
DeleteConversation(sessionId) ==
  /\ Len(storeRequests) < MaxRequests
  /\ Set(AfterDelete([store EXCEPT !.conversations = FilterOut(@, sessionId),
                                   !.activeChatId = IF @ = sessionId THEN Null ELSE @]))
  /\ storeRequests' = Append(storeRequests, StoreRequest("deleteConversation", Null, Null))
  /\ UNCHANGED <<calcVars, activeTab, chatVars, authToken, onLogoutRan>>

\* deleteConversation, from the response of DELETE to its end
DeleteConversationResponds(i) ==
  /\ i \in DOMAIN storeRequests
  /\ storeRequests[i].op = "deleteConversation"
  /\ storeRequests' = Without(storeRequests, i)
  /\ UNCHANGED <<calcVars, activeTab, chatVars, authToken, chatStorage, store, onLogoutRan>>

\* newChat
NewChat ==
  /\ Set(WithGreeting(store))
  /\ UNCHANGED <<calcVars, activeTab, chatVars, authToken, storeRequests, onLogoutRan>>

\* resetForGuest, applied: initialState with the greeting
GuestState == [initialState EXCEPT !.currentChat = <<Greeting>>]

\* the greeting onLogin shows when the chat is empty
GreetingIfEmpty(state) == IF state.currentChat = <<>> THEN WithGreeting(state) ELSE state

\* the state onLogin sets before it fetches
WithNewSession(state, id) == IF id # Null THEN [state EXCEPT !.activeChatId = id] ELSE state

\* onLogin, up to the await inside fetchConversations (or to its end, for a guest)
OnLogin(newSessionId) ==
  /\ Len(storeRequests) < MaxRequests
  /\ IF authToken = Null
       THEN /\ Set(GreetingIfEmpty(ConversationsCleared(WithNewSession(store, newSessionId))))
            /\ UNCHANGED storeRequests
       ELSE /\ Set(WithNewSession(store, newSessionId))
            /\ storeRequests' = Append(storeRequests, StoreRequest("onLogin", Null, authToken))
  /\ UNCHANGED <<calcVars, activeTab, chatVars, authToken, onLogoutRan>>

\* onLogin, from the response of GET /sessions to its end
OnLoginResponds(i, ok, data) ==
  /\ i \in DOMAIN storeRequests
  /\ storeRequests[i].op = "onLogin"
  /\ data \in SessionListsOf(storeRequests[i].token)
  /\ Set(GreetingIfEmpty(IF ok THEN [store EXCEPT !.conversations = data] ELSE store))
  /\ storeRequests' = Without(storeRequests, i)
  /\ UNCHANGED <<calcVars, activeTab, chatVars, authToken, onLogoutRan>>

\* onLogout: localStorage.removeItem('chat-storage'), then resetForGuest, whose
\* set is persisted like any other
OnLogout ==
  /\ store' = GuestState
  /\ chatStorage' = SetItem(authToken, NoItem, GuestState)
  /\ onLogoutRan' = TRUE
  /\ UNCHANGED <<calcVars, activeTab, chatVars, authToken, storeRequests>>

NextStore ==
  \/ \E token \in Tokens : Login(token)
  \/ Logout
  \/ Rehydrate
  \/ \E r \in UserRoles : SetUserRole(r)
  \/ InitializeGreeting
  \/ \E chatId \in SessionIds \cup {Null} : SetActiveChatId(chatId)
  \/ \E i \in 1..MaxRequests : \E ok \in BOOLEAN : \E messages \in Histories : SetActiveChatIdResponds(i, ok, messages)
  \/ FetchConversations
  \/ \E i \in 1..MaxRequests : \E ok \in BOOLEAN : \E data \in StoreSessionLists : FetchConversationsResponds(i, ok, data)
  \/ \E content \in Contents : SendMessage(content)
  \/ \E i \in 1..MaxRequests : \E ok \in BOOLEAN : \E sid \in SessionIds : \E response \in Responses : SendMessageResponds(i, ok, sid, <<response>>)
  \/ RegenerateResponse
  \/ \E i \in 1..MaxRequests : \E ok \in BOOLEAN : \E response \in Responses : RegenerateResponseResponds(i, ok, <<response>>)
  \/ \E sessionId \in SessionIds : DeleteConversation(sessionId)
  \/ \E i \in 1..MaxRequests : DeleteConversationResponds(i)
  \/ NewChat
  \/ \E newSessionId \in SessionIds \cup {Null} : OnLogin(newSessionId)
  \/ \E i \in 1..MaxRequests : \E ok \in BOOLEAN : \E data \in StoreSessionLists : OnLoginResponds(i, ok, data)
  \/ OnLogout

SpecStore == Init /\ [][NextStore]_vars

\* ------------------------------------------------------------------------
\* Reference definitions used by the properties
\* ------------------------------------------------------------------------
\* the length of [0, x] inside the band (lo, hi]
Overlap(x, lo, hi) == DMax(Zero, DSub(DMin(x, hi), lo))

\* the sum over all bands of rate * overlap, band by band
RECURSIVE RefSum(_, _, _, _)
RefSum(x, i, lo, acc) ==
  IF i > Len(PIT_BRACKETS) THEN acc
  ELSE RefSum(x, i + 1, PIT_BRACKETS[i].limit,
              DAdd(acc, DMul(PIT_BRACKETS[i].rate, Overlap(x, lo, PIT_BRACKETS[i].limit))))

RefTax(x) == RefSum(x, 1, Zero, Zero)

RECURSIVE SumTax(_, _)
SumTax(rows, acc) ==
  IF rows = <<>> THEN acc ELSE SumTax(Tail(rows), DAdd(acc, Head(rows).tax))

NonNegativeInputs(inputs) ==
  \A f \in NumberFields : DGeq(inputs[f], Zero)

WithoutNetPayable(res) == [f \in (DOMAIN res) \ {"netPayable"} |-> res[f]]

\* the result for the role shown, and for the role 'Advisor' on the same inputs
ResultsFor(r) == IF r = role THEN results ELSE ComputeResults(r, calcInputs)

\* ------------------------------------------------------------------------
\* Properties
\* ------------------------------------------------------------------------

C2_Monotone ==
  DLt(prevArg, pitArg) => DLeq(prevRes.totalTax, pitRes.totalTax)

C2_Witness ==
  /\ prevArg = FromInt(3000000)
  /\ pitArg = FromInt(3000001)
  /\ DLt(prevRes.totalTax, pitRes.totalTax)

\* C3 as stated: every line item of the breakdown has a strictly positive tax, and
\* no band with a zero taxed amount appears.
C3_StrictlyPositiveTax ==
  \A k \in 1..Len(pitRes.breakdown) :
    /\ DGt(pitRes.breakdown[k].tax, Zero)
    /\ DGt(pitRes.breakdown[k].amount, Zero)

\* C3 amended: every line item has a strictly positive amount and a tax that is
\* never negative and is strictly positive unless the band's rate is 0 (the
\* first band), whose row carries a tax of 0.
C3_PositiveAmountNonNegativeTax ==
  \A k \in 1..Len(pitRes.breakdown) :
    LET row == pitRes.breakdown[k]
    IN  /\ DGt(row.amount, Zero)
        /\ DGeq(row.tax, Zero)
        /\ (row.tax = Zero) <=> (row.rate = Zero)

C3_Witness ==
  /\ pitArg = FromInt(800001)
  /\ Len(pitRes.breakdown) = 2
  /\ pitRes.breakdown[1].tax = Zero
  /\ DGt(pitRes.breakdown[2].tax, Zero)

\* C4: for profitBeforeTax >= 0, citPayable + devLevy + topUpTax is at least
\* profitBeforeTax * MIN_EFFECTIVE_RATE, equals it exactly when citPayable +
\* devLevy is below it, and topUpTax is 0 when citPayable + devLevy meets it.
C4_MinimumTaxFloor ==
  DGeq(citArgs.profitBeforeTax, Zero) =>
    LET current == DAdd(citRes.citPayable, citRes.devLevy)
        total == DAdd(current, citRes.topUpTax)
        floor == DMul(citArgs.profitBeforeTax, CIT_RATES.MIN_EFFECTIVE_RATE)
    IN  /\ DGeq(total, floor)
        /\ DLt(current, floor) => total = floor
        /\ DGeq(current, floor) => citRes.topUpTax = Zero

\* C5: for non-negative inputs netPayable is >= 0, is totalLiability - whtCredits
\* when the credits are below the liability, and is 0 when they reach it.
C5_NetPayable ==
  NonNegativeInputs(calcInputs) =>
    /\ DGeq(results.netPayable, Zero)
    /\ DLt(calcInputs.whtCredits, results.totalLiability) =>
         results.netPayable = DSub(results.totalLiability, calcInputs.whtCredits)
    /\ DGeq(calcInputs.whtCredits, results.totalLiability) => results.netPayable = Zero

C5_Witness ==
  /\ role = "Company"
  /\ NonNegativeInputs(calcInputs)
  /\ DGt(results.totalLiability, Zero)
  /\ DGt(calcInputs.whtCredits, results.totalLiability)
  /\ results.netPayable = Zero

\* C6: whatever was computed before, the result held for (role, inputs) is the one
\* a first computation on the tables as loaded gives, and PIT_BRACKETS and
\* CIT_RATES are as loaded.
C6_Deterministic ==
  /\ pitBrackets = PIT_BRACKETS
  /\ citRates = CIT_RATES
  /\ results = ComputeResultsOn(PIT_BRACKETS, CIT_RATES, role, calcInputs)

C6_Witness ==
  /\ role = "Company"
  /\ calcInputs.grossIncome = FromInt(60000000)
  /\ calcInputs.profitBeforeTax = FromInt(10000000)
  /\ calcInputs.isSmallCompany
  /\ results.topUpTax # Zero

\* C7: totalLiability is the sum of the line items: the tax of every pitBreakdown
\* row plus cgtTax for Individual and Advisor, citPayable + devLevy + topUpTax +
\* companyCGT for Company.
C7_LiabilityIsSumOfItems ==
  \A r \in {role, "Advisor"} :
    LET res == ResultsFor(r)
    IN  IF IsIndividualBranch(r)
          THEN res.totalLiability = DAdd(SumTax(res.pitBreakdown, Zero), res.cgtTax)
          ELSE res.totalLiability =
                 DAdd(DAdd(DAdd(res.citPayable, res.devLevy), res.topUpTax), res.companyCGT)

C7_Witness ==
  /\ role = "Company"
  /\ calcInputs.isSmallCompany
  /\ DGt(results.topUpTax, Zero)
  /\ DGt(results.companyCGT, Zero)

\* C8: whtCredits affect netPayable only: for the same role and other inputs every
\* other field of the result is the same for every amount of credits, and
\* netIncome = gross - totalLiability with gross = income + cgtGains.
C8_CreditsOnlyNetPayable ==
  /\ \A text \in CreditTexts :
       WithoutNetPayable(
         ComputeResults(role, [calcInputs EXCEPT !.whtCredits = ParseFloatOrZero(text)]))
       = WithoutNetPayable(results)
  /\ results.netIncome = DSub(results.gross, results.totalLiability)
  /\ results.gross =
       DAdd(IF role = "Company" THEN calcInputs.profitBeforeTax ELSE calcInputs.grossIncome,
            calcInputs.cgtGains)

C8_Witness ==
  /\ calcInputs.whtCredits = FromInt(50000)
  /\ DGt(results.totalLiability, calcInputs.whtCredits)
  /\ results.netPayable # results.totalLiability
  /\ results.netIncome = DSub(results.gross, results.totalLiability)

\* C9: for Individual (and Advisor) taxableBase = max(0, grossIncome - deductions),
\* pitTax is the tax of the table on taxableBase, totalLiability = pitTax + cgtTax;
\* deductions above the gross income give base 0 and tax 0, never a negative one.
C9_IndividualBase ==
  \A r \in {role, "Advisor"} :
    IsIndividualBranch(r) =>
      LET res == ResultsFor(r)
      IN  /\ res.taxableBase =
               (IF DLt(calcInputs.deductions, calcInputs.grossIncome)
                  THEN DSub(calcInputs.grossIncome, calcInputs.deductions) ELSE Zero)
          /\ res.pitTax = RefTax(res.taxableBase)
          /\ res.totalLiability = DAdd(res.pitTax, res.cgtTax)
          /\ DGeq(res.taxableBase, Zero)
          /\ DGeq(res.pitTax, Zero)
          /\ DGt(calcInputs.deductions, calcInputs.grossIncome) =>
               res.taxableBase = Zero /\ res.pitTax = Zero

C9_Witness ==
  /\ role = "Individual"
  /\ calcInputs.grossIncome = FromInt(2000000)
  /\ calcInputs.deductions = FromInt(3000000)
  /\ results.taxableBase = Zero
  /\ results.pitTax = Zero

\* C10: for individuals cgtTax is the tax of the table on cgtGains alone, whatever
\* grossIncome and deductions are; gains up to the first band limit are taxed 0.
C10_GainsFromZero ==
  \A r \in {role, "Advisor"} :
    IsIndividualBranch(r) =>
      LET res == ResultsFor(r)
      IN  /\ res.cgtTax = RefTax(calcInputs.cgtGains)
          /\ DLeq(calcInputs.cgtGains, PIT_BRACKETS[1].limit) => res.cgtTax = Zero

C10_Witness ==
  /\ role = "Individual"
  /\ calcInputs.grossIncome = FromInt(60000000)
  /\ calcInputs.deductions = Zero
  /\ calcInputs.cgtGains = FromInt(500000)
  /\ results.cgtTax = Zero
  /\ DGt(results.pitTax, Zero)

\* calculateCIT on the arguments of the latest call with one of them replaced
CITWithSize(small) ==
  calculateCITOn(CIT_RATES, citArgs.profitBeforeTax, small, citArgs.cgtGains)

CITWithGains(g) ==
  calculateCITOn(CIT_RATES, citArgs.profitBeforeTax, citArgs.isSmallCompany, FromInt(g))

\* C11: the size classification changes only the CIT rate: citPayable is 0 for a
\* small company and 30% of the profit otherwise, devLevy is 4% of the profit, and
\* devLevy, minTaxFloor and companyCGT are the same for both classifications.
C11_SizeChangesOnlyRate ==
  /\ citRes.citPayable =
       (IF citArgs.isSmallCompany THEN Zero
        ELSE DMul(citArgs.profitBeforeTax, Dec(30, 100)))
  /\ citRes.devLevy = DMul(citArgs.profitBeforeTax, Dec(4, 100))
  /\ LET other == CITWithSize(~citArgs.isSmallCompany)
     IN  /\ other.devLevy = citRes.devLevy
         /\ other.minTaxFloor = citRes.minTaxFloor
         /\ other.companyCGT = citRes.companyCGT

C11_Witness ==
  /\ citArgs.isSmallCompany
  /\ citArgs.profitBeforeTax = FromInt(10000000)
  /\ citRes.citPayable = Zero
  /\ citRes.devLevy = FromInt(400000)
  /\ CITWithSize(FALSE).citPayable = FromInt(3000000)

\* C12: company capital gains never enter the minimum-tax reconciliation: for a
\* fixed profit and size, topUpTax, citPayable and devLevy are the same for every
\* amount of gains, companyCGT is 30% of the gains, and it is added on top of
\* citPayable + devLevy + topUpTax.
C12_GainsOutsideReconciliation ==
  /\ \A g \in CITGains :
       LET other == CITWithGains(g)
       IN  /\ other.topUpTax = citRes.topUpTax
           /\ other.citPayable = citRes.citPayable
           /\ other.devLevy = citRes.devLevy
  /\ citRes.companyCGT = DMul(citArgs.cgtGains, Dec(30, 100))
  /\ citRes.totalCompanyTax =
       DAdd(DAdd(DAdd(citRes.citPayable, citRes.devLevy), citRes.topUpTax),
            citRes.companyCGT)

C12_Witness ==
  /\ citArgs.isSmallCompany
  /\ citArgs.profitBeforeTax = FromInt(1000000)
  /\ citArgs.cgtGains = FromInt(47887538)
  /\ DGt(citRes.companyCGT, citRes.minTaxFloor)
  /\ citRes.topUpTax = FromInt(110000)

\* the citation list for the role shown, and for another role on the same inputs
CitationsFor(r) == IF r = role THEN relevantCitations ELSE RelevantCitations(r, calcInputs)

Range(list) == {list[k] : k \in 1..Len(list)}

\* the rule that says when the entry under a key is attached
Expected(key, r, inputs) ==
  CASE key = "PIT_GENERAL" -> r \in {"Individual", "Advisor"}
    [] key = "CGT_INDIVIDUAL" ->
         r \in {"Individual", "Advisor"} /\ DGt(inputs.cgtGains, Zero)
    [] key = "CIT_SMALL" -> r = "Company" /\ inputs.isSmallCompany
    [] key = "CIT_STANDARD" -> r = "Company" /\ ~inputs.isSmallCompany
    [] key = "DEV_LEVY" -> r = "Company"
    [] key = "MIN_TAX_FLOOR" -> r = "Company"
    [] key = "CGT_COMPANY" -> r = "Company" /\ DGt(inputs.cgtGains, Zero)
    [] key = "WHT_CREDIT" -> DGt(inputs.whtCredits, Zero)

\* C13: the citation list for (role, inputs) holds exactly the entries the rules
\* give, each once: PIT_GENERAL for Individual and Advisor, with CGT_INDIVIDUAL iff
\* cgtGains > 0; for Company CIT_SMALL or CIT_STANDARD by isSmallCompany, DEV_LEVY
\* and MIN_TAX_FLOOR always, CGT_COMPANY iff cgtGains > 0; WHT_CREDIT iff
\* whtCredits > 0 for all of them.
C13_CitationRules ==
  \A r \in {role, "Advisor"} :
    LET list == CitationsFor(r)
    IN  /\ \A key \in DOMAIN STATUTORY_CITATIONS :
             (STATUTORY_CITATIONS[key] \in Range(list)) <=> Expected(key, r, calcInputs)
        /\ Len(list) =
             Cardinality({key \in DOMAIN STATUTORY_CITATIONS : Expected(key, r, calcInputs)})

C13_Witness ==
  /\ role = "Company"
  /\ ~calcInputs.isSmallCompany
  /\ DGt(calcInputs.profitBeforeTax, Zero)
  /\ results.topUpTax = Zero
  /\ calcInputs.cgtGains = Zero
  /\ DGt(calcInputs.whtCredits, Zero)
  /\ relevantCitations =
       <<STATUTORY_CITATIONS.CIT_STANDARD, STATUTORY_CITATIONS.DEV_LEVY,
         STATUTORY_CITATIONS.MIN_TAX_FLOOR, STATUTORY_CITATIONS.WHT_CREDIT>>

\* the lower bound of band i of the table
LowerBound(i) == IF i = 1 THEN Zero ELSE PIT_BRACKETS[i - 1].limit

\* C14: no dangling reference: every entry of the citation list is an entry of
\* STATUTORY_CITATIONS with a code and a description, and every breakdown row
\* carries the citation (and the rate and the label) of the band it came from.
C14_NoDanglingCitation ==
  \A r \in {role, "Advisor"} :
    /\ \A cit \in Range(CitationsFor(r)) :
         /\ \E key \in DOMAIN STATUTORY_CITATIONS : cit = STATUTORY_CITATIONS[key]
         /\ {"code", "desc"} \subseteq DOMAIN cit
         /\ cit.code # ""
         /\ cit.desc # ""
    /\ IsIndividualBranch(r) =>
         \A row \in Range(ResultsFor(r).pitBreakdown) :
           \E i \in 1..Len(PIT_BRACKETS) :
             /\ row.label = BracketLabel(PIT_BRACKETS[i], LowerBound(i))
             /\ row.rate = PIT_BRACKETS[i].rate
             /\ row.citation = PIT_BRACKETS[i].citation

C14_Witness ==
  /\ role = "Individual"
  /\ Len(results.pitBreakdown) = Len(PIT_BRACKETS)
  /\ results.pitBreakdown[6].citation = "NTA 2025 s.56(6)"
  /\ relevantCitations =
       <<STATUTORY_CITATIONS.PIT_GENERAL, STATUTORY_CITATIONS.CGT_INDIVIDUAL,
         STATUTORY_CITATIONS.WHT_CREDIT>>

\* the number fields the computation for a role reads
RelevantFields(r) ==
  IF IsIndividualBranch(r) THEN {"grossIncome", "deductions", "cgtGains", "whtCredits"}
  ELSE {"profitBeforeTax", "cgtGains", "whtCredits"}

\* a negative amount among the fields read, or a category that is neither
\* Individual nor Company
InvalidInput(r, inputs) ==
  \/ r \notin {"Individual", "Company"}
  \/ \E f \in RelevantFields(r) : DLt(inputs[f], Zero)

\* a record of taxes, as opposed to an error
IsTaxResult(res) == {"totalLiability", "netPayable"} \subseteq DOMAIN res

\* C15: given invalid input (a negative amount, or a category that is neither
\* Individual nor Company) the computation returns no tax result: it fails with a
\* validation error and never clamps or falls back to another computation.
C15_ValidationError == InvalidInput(role, calcInputs) => ~IsTaxResult(results)

\* C16: 'Advisor' is an alias of 'Individual': on every input the result and the
\* citation list for 'Advisor' are those for 'Individual'.
C16_AdvisorIsIndividual ==
  /\ ResultsFor("Advisor") = ResultsFor("Individual")
  /\ CitationsFor("Advisor") = CitationsFor("Individual")

C16_Witness ==
  /\ role = "Individual"
  /\ DGt(results.pitTax, Zero)
  /\ DGt(results.cgtTax, Zero)
  /\ Len(relevantCitations) = 3
  /\ ComputeResults("Advisor", calcInputs) = results
  /\ RelevantCitations("Advisor", calcInputs) = relevantCitations

\* the inputs with the fields of the other category as they are initially
OtherCategoryCleared(r, inputs) ==
  IF IsIndividualBranch(r)
    THEN [inputs EXCEPT !.profitBeforeTax = INITIAL_CALC_INPUTS.profitBeforeTax,
                        !.isSmallCompany = INITIAL_CALC_INPUTS.isSmallCompany]
    ELSE [inputs EXCEPT !.grossIncome = INITIAL_CALC_INPUTS.grossIncome,
                        !.deductions = INITIAL_CALC_INPUTS.deductions]

\* C17: fields of the other category do not influence the result: whatever
\* profitBeforeTax and isSmallCompany hold, the Individual result is the one for
\* the same inputs with those two fields as initially, and whatever grossIncome
\* and deductions hold, the Company result is the one with those two as initially.
C17_IrrelevantFieldsIgnored ==
  results = ComputeResults(role, OtherCategoryCleared(role, calcInputs))

C17_Witness ==
  /\ role = "Individual"
  /\ calcInputs.profitBeforeTax = FromInt(10000000)
  /\ calcInputs.isSmallCompany
  /\ DGt(results.totalLiability, Zero)
  /\ results.gross = DAdd(calcInputs.grossIncome, calcInputs.cgtGains)

\* C18: the caller upholds the allocator's precondition: after any sequence of
\* input edits, every amount the dashboard passes to calculatePIT (the taxable
\* base and the capital gains) is >= 0.
C18_CallerNonNegative ==
  IsIndividualBranch(role) => \A a \in PITArguments(calcInputs) : DGeq(a, Zero)

\* the lower bound of band i of the table the program holds
LowerOf(table, i) == IF i = 1 THEN Zero ELSE table[i - 1].limit

\* the bands of the table that hold the amount x: (lower, limit], the first
\* band holding 0 as well
BandsHolding(table, x) ==
  {i \in 1..Len(table) :
     /\ DLt(LowerOf(table, i), x) \/ (i = 1 /\ x = Zero)
     /\ DLeq(x, table[i].limit)}

\* C19: the band table is well formed: limits strictly ascending, exactly one band
\* with limit Infinity and it is the last, every rate within [0, 1], and the bands
\* (previous limit, limit] partition [0, infinity): every amount is in exactly one.
C19_BandTableWellFormed ==
  LET n == Len(pitBrackets)
  IN  /\ n >= 1
      /\ \A i \in 1..(n - 1) : DLt(pitBrackets[i].limit, pitBrackets[i + 1].limit)
      /\ DGt(pitBrackets[1].limit, Zero)
      /\ {i \in 1..n : pitBrackets[i].limit = Infinity} = {n}
      /\ \A i \in 1..n :
           DGeq(pitBrackets[i].rate, Zero) /\ DLeq(pitBrackets[i].rate, FromInt(1))
      /\ \A x \in {pitArg, prevArg} :
           DGeq(x, Zero) => Cardinality(BandsHolding(pitBrackets, x)) = 1

C19_Witness ==
  /\ pitArg = FromInt(2000000000)
  /\ prevArg = FromInt(800000)
  /\ Len(pitRes.breakdown) = Len(pitBrackets)
  /\ BandsHolding(pitBrackets, pitArg) = {6}
  /\ BandsHolding(pitBrackets, prevArg) = {1}

\* C20: for x > 0 the breakdown of calculatePIT(x) lists exactly the bands whose
\* lower bound is below x, each once, in table order with none skipped (row k
\* is band k); for x = 0 the breakdown is empty and totalTax is 0.
C20_BreakdownIsPrefix ==
  LET below == {i \in 1..Len(PIT_BRACKETS) : DLt(LowerBound(i), pitArg)}
      rows == pitRes.breakdown
  IN  /\ DGt(pitArg, Zero) =>
           /\ below = 1..Len(rows)
           /\ \A k \in 1..Len(rows) :
                /\ rows[k].label = BracketLabel(PIT_BRACKETS[k], LowerBound(k))
                /\ rows[k].rate = PIT_BRACKETS[k].rate
                /\ rows[k].citation = PIT_BRACKETS[k].citation
      /\ pitArg = Zero => rows = <<>> /\ pitRes.totalTax = Zero

C20_Witness ==
  /\ pitArg = FromInt(3000001)
  /\ Len(pitRes.breakdown) = 3
  /\ pitRes.breakdown[3].citation = "NTA 2025 s.56(3)"
  /\ prevArg = Zero
  /\ prevRes.breakdown = <<>>

\* C21: band limits are inclusive in the lower band and the walk stops there:
\* for x equal to the limit of band k the loop runs for bands 1..k only, the
\* breakdown has k rows, the last of them the full width of band k, and none for
\* band k+1; x = 800,000 gives tax 0 and a single 0% row.
C21_LimitStaysInLowerBand ==
  \A k \in 1..Len(PIT_BRACKETS) :
    pitArg = PIT_BRACKETS[k].limit =>
      /\ pitVisited = k
      /\ Len(pitRes.breakdown) = k
      /\ pitRes.breakdown[k].amount = DSub(PIT_BRACKETS[k].limit, LowerBound(k))
      /\ pitRes.breakdown[k].citation = PIT_BRACKETS[k].citation
      /\ k = 1 => pitRes.totalTax = Zero /\ pitRes.breakdown[1].rate = Zero

C21_Witness ==
  /\ pitArg = FromInt(800000)
  /\ pitVisited = 1
  /\ Len(pitRes.breakdown) = 1
  /\ pitRes.totalTax = Zero
  /\ prevArg = FromInt(50000000)
  /\ Len(prevRes.breakdown) = 5

RECURSIVE SumAmount(_, _)
SumAmount(rows, acc) ==
  IF rows = <<>> THEN acc ELSE SumAmount(Tail(rows), DAdd(acc, Head(rows).amount))

\* C23: the breakdown conserves the taxable amount: for x >= 0 the amounts of the
\* rows of calculatePIT(x) sum to exactly x, and the amount of each row is at
\* most the width of its band.
C23_AmountConserved ==
  DGeq(pitArg, Zero) =>
    /\ SumAmount(pitRes.breakdown, Zero) = pitArg
    /\ \A k \in 1..Len(pitRes.breakdown) :
         \E i \in 1..Len(PIT_BRACKETS) :
           /\ pitRes.breakdown[k].citation = PIT_BRACKETS[i].citation
           /\ DLeq(pitRes.breakdown[k].amount,
                   DSub(PIT_BRACKETS[i].limit, LowerBound(i)))

\* the most the progressive bands take: 25% of the amount
QuarterOf(x) == DMul(x, Dec(25, 100))

\* 34% of profit + 30% of gains
CompanyCeiling(inputs) ==
  DAdd(DMul(inputs.profitBeforeTax, Dec(34, 100)), DMul(inputs.cgtGains, Dec(30, 100)))

C25_TopUpSmallOnly ==
  DGeq(citArgs.profitBeforeTax, Zero) =>
    IF ~citArgs.isSmallCompany
      THEN citRes.topUpTax = Zero
      ELSE DGt(citArgs.profitBeforeTax, Zero) =>
             /\ citRes.topUpTax = DMul(citArgs.profitBeforeTax, Dec(11, 100))
             /\ DAdd(DAdd(citRes.citPayable, citRes.devLevy), citRes.topUpTax)
                  = DMul(citArgs.profitBeforeTax, Dec(15, 100))

\* CalculatorDashboard: the inputs and the breakdown rendered for a company,
\* role === 'Company' ? ... and role !== 'Company' ? ...
RendersCompany(r) == r = "Company"

\* C26: in every reachable state of App the calculator role is 'Individual' or
\* 'Company', and the branch that computes the result and the branches that
\* render inputs and breakdown select the same category: no role is computed as
\* a company but rendered as an individual, and the result holds the fields the
\* rendered breakdown reads.
C26_RoleSelectsOneCategory ==
  /\ role \in {"Individual", "Company"}
  /\ RendersCompany(role) <=> ~IsIndividualBranch(role)
  /\ IF RendersCompany(role)
       THEN {"citPayable", "devLevy", "topUpTax", "companyCGT"} \subseteq DOMAIN results
       ELSE {"taxableBase", "pitBreakdown", "cgtTax"} \subseteq DOMAIN results

C26_Witness ==
  /\ activeTab = "tools"
  /\ role = "Company"
  /\ DGt(calcInputs.profitBeforeTax, Zero)
  /\ DGt(results.citPayable, Zero)
  /\ ~IsIndividualBranch(role)

\* every computed amount of a result is 0
AmountsZero(res) == res.totalLiability = Zero /\ res.netPayable = Zero /\ res.netIncome = Zero

\* C30: clearing the calculator resets inputs only: after handleClearCalc is
\* confirmed, calcInputs equals INITIAL_CALC_INPUTS and totalLiability,
\* netPayable and netIncome are 0 for either role, while role and activeTab are
\* unchanged; when the confirm is declined, calcInputs is unchanged.
C30_ClearResetsInputsOnly ==
  [][/\ HandleClearCalc(TRUE) =>
          /\ calcInputs' = INITIAL_CALC_INPUTS
          /\ AmountsZero(results')
          /\ \A r \in {"Individual", "Company"} : AmountsZero(ComputeResults(r, calcInputs'))
          /\ role' = role
          /\ activeTab' = activeTab
     /\ HandleClearCalc(FALSE) => calcInputs' = calcInputs /\ role' = role /\ results' = results]_vars

C30_Witness ==
  /\ activeTab = "tools"
  /\ role = "Company"
  /\ calcInputs = INITIAL_CALC_INPUTS
  /\ AmountsZero(results)
  /\ results.minTaxFloor = Zero

\* C27: deleteChat deletes only on confirmation: when the user declines the
\* confirm dialog, the conversation list and activeChatId are unchanged and no
\* DELETE request is sent; when the user confirms, the session is removed from
\* the list and the DELETE request is sent.
C27_DeleteOnlyOnConfirm ==
  [][\A id \in SessionIds :
       /\ DeleteChat(id, FALSE) =>
            /\ conversations' = conversations
            /\ activeChatId' = activeChatId
            /\ requests' = requests
       /\ DeleteChat(id, TRUE) =>
            /\ id \notin Ids(conversations')
            /\ requests' = Append(requests, Request("deleteChat", "delete", id, 0))]_vars

\* a step in which a regeneration receives its response
RegenerationEnds == \E i \in DOMAIN requests : requests[i].op = "handleRegenerate" /\ requests' = Without(requests, i)

\* C29: regeneration rewrites only the reply to the last human message: a
\* regeneration modifies a message only if it is an assistant message that comes
\* after the last human message; when the last human message has no reply, or
\* the chat has no assistant message, no message is modified.
C29_RegenerateOnlyLastReply ==
  [][RegenerationEnds =>
       /\ Len(currentChat') = Len(currentChat)
       /\ \A k \in DOMAIN currentChat :
            currentChat'[k] # currentChat[k] =>
              IsAssistant(currentChat[k]) /\ k > LastHumanPosition(currentChat)]_vars

\* the chat requests of App awaiting their response, and the calls of
\* handleSendMessage and handleRegenerate that have not reached their end
AppChatRequests == {i \in DOMAIN requests : requests[i].awaits = "chat"}
AppCallsRunning == {i \in DOMAIN requests : requests[i].op \in {"handleSendMessage", "handleRegenerate"}}

\* the same for sendMessage and regenerateResponse of the store
StoreChatRequests == {i \in DOMAIN storeRequests : storeRequests[i].op \in {"sendMessage", "regenerateResponse"}}

\* App alone: one chat request at most, and isLoading exactly while a call runs
AppOneChatRequest ==
  /\ Cardinality(AppChatRequests) <= 1
  /\ isLoading <=> AppCallsRunning # {}

\* C28: at most one chat request is in flight at a time: no request is started
\* while isLoading is true, isLoading is true for as long as a request is
\* outstanding, and it is false again after every request, successful or failed;
\* for the handlers of App and for sendMessage of the store.
C28_OneChatRequest ==
  /\ AppOneChatRequest
  /\ Cardinality(StoreChatRequests) <= 1
  /\ store.isLoading <=> StoreChatRequests # {}

\* no item 'chat-storage', or one without conversations
NoStoredConversations == chatStorage = NoItem \/ chatStorage[1].conversations = <<>>

\* C22: whenever localStorage holds no auth_token, nothing of the chat store is
\* persisted or restored: no step writes the item 'chat-storage' (it may be
\* removed), rehydration leaves the initial state, and once onLogout has run and
\* the token is removed, in either order, no item with conversations remains.
C22_GuestNotPersisted ==
  /\ [](authToken = Null /\ onLogoutRan => NoStoredConversations)
  /\ [][authToken = Null => chatStorage' = chatStorage \/ chatStorage' = NoItem]_vars
  /\ [][authToken = Null /\ Rehydrate => store' = initialState]_vars
====
